---------------------------- MODULE Spec2Model ----------------------------
(***************************************************************************)
(* Triple-buffered frame hand-off of libvlcpp's video_callback examples    *)
(* (examples/video_callback/glfw_sample.cpp and sdl_opengl.cpp).           *)
(*                                                                         *)
(* Two threads: "vlc", the media engine's thread, which calls the          *)
(* FrameCapture callbacks (onSetup, onUpdateOutput, onSwap, onMakeCurrent, *)
(* onGetProcAddress, onCleanup), and "main", the host's draw loop, which   *)
(* calls FrameCapture::getNextFrame once per draw.  The two FrameCapture   *)
(* classes are the same code up to the points the variable backend         *)
(* selects.                                                                *)
(*                                                                         *)
(* OpenGL object names are modelled as never reused: glGenTextures hands   *)
(* out the next three unused names, so a name identifies one texture       *)
(* object for the whole run.  The k-th glGenTextures call of a run yields  *)
(* the names 3(k-1)+1 .. 3k, and glGenFramebuffers likewise.               *)
(***************************************************************************)
EXTENDS Integers, FiniteSets, Sequences, TLC

(***************************************************************************)
(* Bounds of the model.                                                    *)
(***************************************************************************)
\* number of onUpdateOutput calls the engine makes in a run
MaxAllocs == 2
\* number of frames the engine draws and publishes in a run
MaxFrames == 2
\* number of onSetup calls the engine makes in a run
MaxSetups == 1

Slots == 0 .. 2
MaxName == 3 * MaxAllocs
Names == 1 .. MaxName
\* the (width, height) pairs the engine negotiates; the first negotiation of
\* a run is for FirstDim (the two sizes are interchangeable: the code compares
\* them only to log a change), a later one keeps the size or changes it
Dims == { <<640, 480>>, <<1280, 720>> }
FirstDim == <<640, 480>>
\* content of a texture: no frame, a frame being written, or frame n
NoFrame == 0
Torn == NoFrame - 1

VARIABLES
    backend,                  \* "glfw" or "sdl": which example is running
    \* ---- FrameCapture fields
    fbos_, textures_,
    frame_render_id_, frame_swap_id_, frame_present_id_,
    frame_width_, frame_height_,
    frame_acquisition_mutex_, \* "free", or the thread that holds the lock
    frame_acquired_,
    \* ---- OpenGL objects (shared between the two contexts)
    liveTex, liveFbo,         \* names generated and not deleted
    texSize,                  \* texture name -> <<w, h>> (<<0,0>>: no storage)
    texData,                  \* texture name -> NoFrame, Torn or frame number
    fboTex,                   \* framebuffer name -> attached texture name
    boundFbo,                 \* GL_FRAMEBUFFER binding of the shared context
    ctx,                      \* thread -> context current on it
    entered,                  \* the engine's last onMakeCurrent(true) returned
                              \*   true and onMakeCurrent(false) has not
                              \*   been called since
    \* ---- the engine thread
    pcV,                      \* position of the engine thread
    loop_i,                   \* index of the loop the engine thread is in
    cfg,                      \* <<width, height>> of the running onUpdateOutput
    incompleteFbos,           \* framebuffers of the running onUpdateOutput the
                              \* device holds incomplete, other than the one
                              \* glCheckFramebufferStatus asked about
    out,                      \* the engine's output descriptor, which it
                              \*   passes to onUpdateOutput: field -> value
    phase,                    \* "uninit", "negotiating", "streaming"
    playing,                  \* the player runs (between play and delete/stop)
    exited,                   \* exit(EXIT_FAILURE) was called
    nAllocs, nFrames, nSetups,\* calls made so far (bounded)
    \* ---- the main thread
    pcM,                      \* position of the main thread
    ret,                      \* value getNextFrame is about to return
    \* ---- history (read by the properties only)
    held,                     \* handle the last getNextFrame returned
    heldSlot,                 \* slot it was read from (-1: no call returned)
    heldData,                 \* content of that texture when it was returned
    allocsAtStart,            \* onUpdateOutput calls that had returned when
                              \*   the running getNextFrame started
    quiet,                    \* getNextFrame calls started since the engine's
                              \*   last callback step (0, 1, 2 = two or more)
    lastPub,                  \* frame number of the last completed onSwap
    pubInSession,             \* an onSwap completed since the last onSetup
    pubSinceAcq,              \* onSwaps completed since getNextFrame last
                              \*   returned (0, 1, 2 = two or more)
    superseded,               \* frames published and replaced unacquired
    published                 \* textures a completed onSwap left in the swap
                              \*   slot

idxVars  == << frame_render_id_, frame_swap_id_, frame_present_id_ >>
dimVars  == << frame_width_, frame_height_ >>
tabVars  == << fbos_, textures_ >>
objVars  == << liveTex, liveFbo, texSize, fboTex >>
ctxVars  == << ctx, entered >>
loopVars == << loop_i, cfg, incompleteFbos >>
runVars  == << playing, exited >>
cntVars  == << nAllocs, nFrames, nSetups >>
retVars  == << held, heldSlot, heldData, allocsAtStart >>
pubVars  == << lastPub, pubInSession, pubSinceAcq, superseded, published >>

vars == << backend, tabVars, idxVars, dimVars, frame_acquisition_mutex_,
           frame_acquired_, objVars, texData, boundFbo, ctxVars, pcV,
           loopVars, out, phase, runVars, cntVars, pcM, ret, retVars, quiet, pubVars >>

\* an indeterminate GLuint that is no name the model hands out
Junk == MaxName + 1
ZeroTable == [i \in Slots |-> 0]
JunkTable == [i \in Slots |-> Junk]

\* positions of the engine thread inside onUpdateOutput
UoPcs == { "uo_gentex", "uo_genfbo", "uo_loop", "uo_check", "uo_bind" }
\* onUpdateOutput calls that have returned
AllocsDone == IF pcV \in UoPcs THEN nAllocs - 1 ELSE nAllocs

DataOf(h) == IF h \in Names THEN texData[h] ELSE NoFrame
SizeOf(h) == IF h \in Names THEN texSize[h] ELSE << 0, 0 >>
\* the texture a draw into the bound framebuffer writes
DrawTarget == IF boundFbo \in Names THEN fboTex[boundFbo] ELSE 0

\* fields of libvlc_video_output_cfg_t the engine requires
OutFields == { "opengl_format", "full_range", "colorspace", "primaries",
               "transfer", "orientation" }
\* the descriptor before any onUpdateOutput has written it
OutUnset == [f \in OutFields |-> "unset"]
\* the values onUpdateOutput assigns
OutFixed == [f \in OutFields |->
               CASE f = "opengl_format" -> "GL_RGBA"
                 [] f = "full_range"    -> "true"
                 [] f = "colorspace"    -> "BT709"
                 [] f = "primaries"     -> "BT709"
                 [] f = "transfer"      -> "SRGB"
                 [] f = "orientation"   -> "top_left"]
\* the fields onUpdateOutput assigns: sdl has no assignment to orientation
OutWritten == IF backend = "glfw" THEN OutFields
                                  ELSE OutFields \ { "orientation" }

Min2(n) == IF n >= 2 THEN 2 ELSE n

EngineRuns == playing /\ ~exited
MainRuns   == ~exited

Init ==
    /\ backend \in { "glfw", "sdl" }
    /\ textures_ \in (IF backend = "sdl" THEN { ZeroTable }
                                          ELSE { ZeroTable, JunkTable })
    /\ fbos_ = textures_
    /\ frame_render_id_ = 0
    /\ frame_swap_id_ = 1
    /\ frame_present_id_ = 2
    /\ frame_width_ = 0
    /\ frame_height_ = 0
    /\ frame_acquisition_mutex_ = "free"
    /\ frame_acquired_ = FALSE
    /\ liveTex = {}
    /\ liveFbo = {}
    /\ texSize = [n \in Names |-> << 0, 0 >>]
    /\ texData = [n \in Names |-> NoFrame]
    /\ fboTex = [n \in Names |-> 0]
    /\ boundFbo = 0
    /\ ctx = [t \in { "vlc", "main" } |-> IF t = "main" THEN "shared" ELSE "none"]
    /\ entered = FALSE
    /\ pcV = "idle"
    /\ loop_i = 0
    /\ cfg = << 0, 0 >>
    /\ incompleteFbos = {}
    /\ out = OutUnset
    /\ phase = "uninit"
    /\ playing = FALSE
    /\ exited = FALSE
    /\ nAllocs = 0
    /\ nFrames = 0
    /\ nSetups = 0
    /\ pcM = "setup"
    /\ ret = 0
    /\ held = 0
    /\ heldSlot = -1
    /\ heldData = NoFrame
    /\ allocsAtStart = 0
    /\ quiet = 0
    /\ lastPub = 0
    /\ pubInSession = FALSE
    /\ pubSinceAcq = 0
    /\ superseded = {}
    /\ published = {}

(***************************************************************************)
(* The platform call behind onMakeCurrent and main's context switches      *)
(* (glfwMakeContextCurrent, SDL_GL_MakeCurrent).  The windowing layer      *)
(* leaves it to the caller that a context is current on one thread at a    *)
(* time, so the call is not refused here when another thread holds c.      *)
(***************************************************************************)
MakeContextCurrent(t, c) == ctx' = [ctx EXCEPT ![t] = c]

\* faulty variant of LockMutex: the lock is taken without waiting for its holder
LockMutex_noWait(t) == frame_acquisition_mutex_' = t

\* std::lock_guard<std::mutex> lock(frame_acquisition_mutex_): blocks until free
LockMutex(t) ==
    /\ frame_acquisition_mutex_ = "free"
    /\ frame_acquisition_mutex_' = t

\* faulty variant of UnlockMutex: the mutex is not released
UnlockMutex_kept == frame_acquisition_mutex_' = frame_acquisition_mutex_

\* the lock_guard's destructor
UnlockMutex == frame_acquisition_mutex_' = "free"

\* std::swap(frame_present_id_, frame_swap_id_)
SwapPresentSwap ==
    /\ frame_present_id_' = frame_swap_id_
    /\ frame_swap_id_' = frame_present_id_

\* faulty variant of SwapRenderSwap: a swap that loses the old render index
SwapRenderSwap_lost ==
    /\ frame_render_id_' = frame_swap_id_
    /\ frame_swap_id_' = frame_swap_id_

\* faulty variant of SwapRenderSwap: the new swap index is taken from present
SwapRenderSwap_fromPresent ==
    /\ frame_render_id_' = frame_swap_id_
    /\ frame_swap_id_' = frame_present_id_

\* std::swap(frame_render_id_, frame_swap_id_)
SwapRenderSwap ==
    /\ frame_render_id_' = frame_swap_id_
    /\ frame_swap_id_' = frame_render_id_

\* faulty variant of ClearAcquired: the flag is left set
ClearAcquired_missing == frame_acquired_' = frame_acquired_

\* frame_acquired_ = false
ClearAcquired == frame_acquired_' = FALSE

(***************************************************************************)
(* The main thread: set-up, the draw loop calling getNextFrame, tear-down. *)
(* Init is the point where the shared context has just been made current   *)
(* on the main thread (glfwMakeContextCurrent(shared_ctx),                 *)
(* SDL_GL_CreateContext).                                                  *)
(***************************************************************************)
\* faulty variant of main_Setup: the shared context stays current on the main thread
main_Setup_keepsShared ==
    /\ MainRuns
    /\ pcM = "setup"
    /\ pcM' = "play"
    /\ UNCHANGED << backend, out, tabVars, idxVars, dimVars,
                    frame_acquisition_mutex_, frame_acquired_, objVars,
                    texData, boundFbo, ctxVars, pcV, loopVars, phase, runVars,
                    cntVars, ret, retVars, quiet, pubVars >>

\* glfwMakeContextCurrent(window) / Renderer's SDL_CreateRenderer
main_Setup ==
    /\ MainRuns
    /\ pcM = "setup"
    /\ MakeContextCurrent("main", "window")
    /\ pcM' = "play"
    /\ UNCHANGED << entered, backend, out, tabVars, idxVars, dimVars,
                    frame_acquisition_mutex_, frame_acquired_, objVars,
                    texData, boundFbo, pcV, loopVars, phase, runVars,
                    cntVars, ret, retVars, quiet, pubVars >>

\* new FrameCapture; bindOutputCallbacks; addMedia; play
main_Play ==
    /\ MainRuns
    /\ pcM = "play"
    /\ playing' = TRUE
    /\ pcM' = "idle"
    /\ UNCHANGED << backend, out, tabVars, idxVars, dimVars,
                    frame_acquisition_mutex_, frame_acquired_, objVars,
                    texData, boundFbo, ctxVars, pcV, loopVars, phase, exited,
                    cntVars, ret, retVars, quiet, pubVars >>

\* std::lock_guard lock(frame_acquisition_mutex_)
getNextFrame_lock ==
    /\ MainRuns
    /\ pcM = "idle"
    /\ playing
    /\ LockMutex("main")
    /\ pcM' = "gnf_check"
    /\ allocsAtStart' = AllocsDone
    /\ quiet' = Min2(quiet + 1)
    /\ UNCHANGED << backend, out, tabVars, idxVars, dimVars, frame_acquired_,
                    objVars, texData, boundFbo, ctxVars, pcV, loopVars, phase,
                    runVars, cntVars, ret, held, heldSlot, heldData,
                    pubVars >>

\* if (frame_acquired_) { std::swap(present, swap); frame_acquired_ = false; }
getNextFrame_check ==
    /\ MainRuns
    /\ pcM = "gnf_check"
    /\ IF frame_acquired_
         THEN /\ SwapPresentSwap
              /\ ClearAcquired
         ELSE UNCHANGED << frame_present_id_, frame_swap_id_, frame_acquired_ >>
    /\ pcM' = "gnf_read"
    /\ UNCHANGED << backend, out, tabVars, frame_render_id_, dimVars,
                    frame_acquisition_mutex_, objVars, texData, boundFbo,
                    ctxVars, pcV, loopVars, phase, runVars, cntVars, ret,
                    retVars, quiet, pubVars >>

\* the operand of return: textures_.at(frame_present_id_)
getNextFrame_read ==
    /\ MainRuns
    /\ pcM = "gnf_read"
    /\ ret' = textures_[frame_present_id_]
    /\ pcM' = "gnf_ret"
    /\ UNCHANGED << backend, out, tabVars, idxVars, dimVars,
                    frame_acquisition_mutex_, frame_acquired_, objVars,
                    texData, boundFbo, ctxVars, pcV, loopVars, phase, runVars,
                    cntVars, retVars, quiet, pubVars >>

\* the lock_guard is destroyed and the call returns ret
getNextFrame_return ==
    /\ MainRuns
    /\ pcM = "gnf_ret"
    /\ UnlockMutex
    /\ pcM' = "idle"
    /\ held' = ret
    /\ heldSlot' = frame_present_id_
    /\ heldData' = DataOf(ret)
    /\ pubSinceAcq' = 0
    /\ UNCHANGED << backend, out, tabVars, idxVars, dimVars, frame_acquired_,
                    objVars, texData, boundFbo, ctxVars, pcV, loopVars, phase,
                    runVars, cntVars, ret, allocsAtStart, quiet, lastPub,
                    pubInSession, superseded, published >>

\* the loop ends; delete vlc / vlc.stop() and the player's destruction, which
\* returns once the engine thread has finished its callbacks
main_Close ==
    /\ MainRuns
    /\ pcM = "idle"
    /\ playing
    /\ pcV = "idle"
    /\ ~entered
    /\ playing' = FALSE
    /\ pcM' = IF backend = "glfw" THEN "teardown" ELSE "done"
    /\ UNCHANGED << backend, out, tabVars, idxVars, dimVars,
                    frame_acquisition_mutex_, frame_acquired_, objVars,
                    texData, boundFbo, ctxVars, pcV, loopVars, phase, exited,
                    cntVars, ret, retVars, quiet, pubVars >>

\* glfw only: glfwMakeContextCurrent(shared_ctx); glfwDestroyWindow(shared_ctx)
main_Teardown ==
    /\ MainRuns
    /\ pcM = "teardown"
    /\ MakeContextCurrent("main", "shared")
    /\ pcM' = "done"
    /\ UNCHANGED << entered, backend, out, tabVars, idxVars, dimVars,
                    frame_acquisition_mutex_, frame_acquired_, objVars,
                    texData, boundFbo, pcV, loopVars, phase, runVars,
                    cntVars, ret, retVars, quiet, pubVars >>

(***************************************************************************)
(* The engine thread.  The engine is libvlc: it calls onSetup to open a    *)
(* session, brackets its GL work with onMakeCurrent(true/false), calls     *)
(* onUpdateOutput to negotiate the output, then for each picture draws     *)
(* into the bound framebuffer and calls onSwap.  Every step of a callback  *)
(* resets quiet.                                                           *)
(***************************************************************************)
EngineIdle == EngineRuns /\ pcV = "idle"
\* the engine makes its GL callbacks between an onMakeCurrent(true) that
\* returned true and the following onMakeCurrent(false)
EngineInGL == EngineIdle /\ entered
\* a GL command of the engine thread acts on the context current on it; with
\* none current it has no effect and returns 0
HasContext == ctx["vlc"] = "shared"

\* frame_width_ = 0; frame_height_ = 0; return true
onSetup ==
    /\ EngineIdle
    /\ nSetups < MaxSetups
    /\ nSetups' = nSetups + 1
    /\ frame_width_' = 0
    /\ frame_height_' = 0
    /\ phase' = "negotiating"
    /\ pubInSession' = FALSE
    /\ quiet' = 0
    /\ UNCHANGED << backend, out, tabVars, idxVars, frame_acquisition_mutex_,
                    frame_acquired_, objVars, texData, boundFbo, ctxVars, pcV,
                    loopVars, runVars, nAllocs, nFrames, pcM, ret, retVars,
                    lastPub, pubSinceAcq, superseded, published >>

\* faulty variant of onMakeCurrent_result: true is returned whatever happened
onMakeCurrent_result_always(ok) == TRUE

\* the value onMakeCurrent(true) returns when the platform's attach reported
\* ok: sdl returns 0 == SDL_GL_MakeCurrent(...), glfw returns true after
\* glfwMakeContextCurrent, which reports nothing
onMakeCurrent_result(ok) == IF backend = "sdl" THEN ok ELSE TRUE

\* onMakeCurrent(true): one attach attempt, which succeeds or fails
onMakeCurrent_enter ==
    /\ EngineIdle
    /\ ~entered
    /\ ctx["vlc"] = "none"
    /\ \E ok \in BOOLEAN :
         /\ IF ok THEN MakeContextCurrent("vlc", "shared")
                  ELSE UNCHANGED ctx
         /\ entered' = onMakeCurrent_result(ok)
    /\ quiet' = 0
    /\ UNCHANGED << backend, out, tabVars, idxVars, dimVars,
                    frame_acquisition_mutex_, frame_acquired_, objVars,
                    texData, boundFbo, pcV, loopVars, phase, runVars,
                    cntVars, pcM, ret, retVars, pubVars >>

\* onMakeCurrent(false)
onMakeCurrent_leave ==
    /\ EngineInGL
    /\ MakeContextCurrent("vlc", "none")
    /\ entered' = FALSE
    /\ quiet' = 0
    /\ UNCHANGED << backend, out, tabVars, idxVars, dimVars,
                    frame_acquisition_mutex_, frame_acquired_, objVars,
                    texData, boundFbo, pcV, loopVars, phase, runVars,
                    cntVars, pcM, ret, retVars, pubVars >>

\* onGetProcAddress(funcname): a lookup
onGetProcAddress ==
    /\ EngineIdle
    /\ quiet' = 0
    /\ UNCHANGED << backend, out, tabVars, idxVars, dimVars,
                    frame_acquisition_mutex_, frame_acquired_, objVars,
                    texData, boundFbo, ctxVars, pcV, loopVars, phase, runVars,
                    cntVars, pcM, ret, retVars, pubVars >>

\* the name glGenTextures / glGenFramebuffers writes into element k
NewName(k) == 3 * (nAllocs - 1) + k + 1

\* onUpdateOutput is entered with cfg = d: the size comparison only logs
onUpdateOutput_enter(d) ==
    /\ EngineInGL
    /\ phase # "uninit"
    /\ nAllocs < MaxAllocs
    /\ nAllocs = 0 => d = FirstDim
    /\ nAllocs' = nAllocs + 1
    /\ cfg' = d
    /\ loop_i' = 0
    /\ pcV' = "uo_gentex"
    /\ quiet' = 0
    /\ UNCHANGED << backend, out, tabVars, idxVars, dimVars,
                    frame_acquisition_mutex_, frame_acquired_, objVars,
                    texData, boundFbo, ctxVars, incompleteFbos, phase, runVars,
                    nFrames, nSetups, pcM, ret, retVars, pubVars >>

\* the names in a handle table
TableNames(tab) == { tab[k] : k \in Slots } \cap Names

\* faulty variant of GenTexture: textures are generated only while the table has none
GenTexture_once(k) ==
    IF textures_[k] \in Names
      THEN UNCHANGED << textures_, liveTex >>
      ELSE /\ textures_' = [textures_ EXCEPT ![k] = NewName(k)]
           /\ liveTex' = liveTex \cup { NewName(k) }

\* glGenTextures writes element k of the table
GenTexture(k) ==
    /\ textures_' = [textures_ EXCEPT ![k] = NewName(k)]
    /\ liveTex' = liveTex \cup { NewName(k) }

\* glGenTextures(3, textures_.data()) writes the three elements one by one,
\* with no lock held
onUpdateOutput_gentex ==
    /\ EngineRuns
    /\ pcV = "uo_gentex"
    /\ IF HasContext THEN GenTexture(loop_i)
                     ELSE UNCHANGED << textures_, liveTex >>
    /\ IF loop_i < 2
         THEN loop_i' = loop_i + 1 /\ pcV' = pcV
         ELSE loop_i' = 0 /\ pcV' = "uo_genfbo"
    /\ quiet' = 0
    /\ UNCHANGED << backend, out, fbos_, idxVars, dimVars,
                    frame_acquisition_mutex_, frame_acquired_, liveFbo,
                    texSize, fboTex, texData, boundFbo, ctxVars, cfg,
                    incompleteFbos, phase, runVars, cntVars, pcM, ret, retVars,
                    pubVars >>

\* glGenFramebuffers(3, fbos_.data()); frame_width_ = cfg->width;
\* frame_height_ = cfg->height
onUpdateOutput_genfbo ==
    /\ EngineRuns
    /\ pcV = "uo_genfbo"
    /\ IF HasContext
         THEN /\ fbos_' = [k \in Slots |-> NewName(k)]
              /\ liveFbo' = liveFbo \cup { NewName(k) : k \in Slots }
         ELSE UNCHANGED << fbos_, liveFbo >>
    /\ frame_width_' = cfg[1]
    /\ frame_height_' = cfg[2]
    /\ loop_i' = 0
    /\ pcV' = "uo_loop"
    /\ quiet' = 0
    /\ UNCHANGED << backend, out, textures_, idxVars, frame_acquisition_mutex_,
                    frame_acquired_, liveTex, texSize, fboTex, texData,
                    boundFbo, ctxVars, cfg, incompleteFbos, phase, runVars,
                    cntVars, pcM, ret, retVars, pubVars >>

\* glBindFramebuffer(GL_FRAMEBUFFER, fbo)
BindFramebuffer(fbo) == boundFbo' = IF HasContext THEN fbo ELSE boundFbo

\* glTexImage2D(..., w, h, ..., nullptr) on texture tex
TexImage2D(tex, w, h) ==
    /\ texSize' = [texSize EXCEPT ![tex] = << w, h >>]
    /\ texData' = [texData EXCEPT ![tex] = NoFrame]

\* one iteration of the loop: storage for textures_[i], then fbos_[i] is bound
\* and textures_[i] attached to it
onUpdateOutput_loop ==
    /\ EngineRuns
    /\ pcV = "uo_loop"
    /\ IF HasContext
         THEN /\ TexImage2D(textures_[loop_i], frame_width_, frame_height_)
              /\ boundFbo' = fbos_[loop_i]
              /\ fboTex' = [fboTex EXCEPT ![fbos_[loop_i]] = textures_[loop_i]]
         ELSE UNCHANGED << texSize, texData, boundFbo, fboTex >>
    /\ IF loop_i < 2
         THEN loop_i' = loop_i + 1 /\ pcV' = pcV
         ELSE loop_i' = 0 /\ pcV' = "uo_check"
    /\ quiet' = 0
    /\ UNCHANGED << backend, out, tabVars, idxVars, dimVars,
                    frame_acquisition_mutex_, frame_acquired_, liveTex,
                    liveFbo, ctxVars, cfg, incompleteFbos, phase, runVars,
                    cntVars, pcM, ret, retVars, pubVars >>

\* faulty variant of onUpdateOutput_check: an incomplete framebuffer makes the
\* callback return false instead of ending the process
onUpdateOutput_check_returnsFalse ==
    /\ EngineRuns
    /\ pcV = "uo_check"
    /\ \/ HasContext /\ pcV' = "uo_bind"
       \/ pcV' = "idle"
    /\ quiet' = 0
    /\ UNCHANGED << backend, out, tabVars, idxVars, dimVars,
                    frame_acquisition_mutex_, frame_acquired_, objVars,
                    texData, boundFbo, ctxVars, loopVars, phase, runVars,
                    cntVars, pcM, ret, retVars, pubVars >>

\* glCheckFramebufferStatus(GL_FRAMEBUFFER), called once after the loop, asks
\* about the framebuffer bound last: complete, or exit(EXIT_FAILURE). What the
\* device holds of the other framebuffers of the ring is not asked.
onUpdateOutput_check ==
    /\ EngineRuns
    /\ pcV = "uo_check"
    /\ \/ /\ HasContext
          /\ \E B \in SUBSET (TableNames(fbos_) \ { boundFbo }) :
                 incompleteFbos' = B
          /\ pcV' = "uo_bind"
          /\ UNCHANGED exited
       \/ exited' = TRUE /\ UNCHANGED << pcV, incompleteFbos >>
    /\ quiet' = 0
    /\ UNCHANGED << backend, out, tabVars, idxVars, dimVars,
                    frame_acquisition_mutex_, frame_acquired_, objVars,
                    texData, boundFbo, ctxVars, loop_i, cfg, phase, playing,
                    cntVars, pcM, ret, retVars, pubVars >>

\* glBindFramebuffer(GL_FRAMEBUFFER, fbos_.at(frame_render_id_)); out is
\* filled in; return true
onUpdateOutput_bind ==
    /\ EngineRuns
    /\ pcV = "uo_bind"
    /\ BindFramebuffer(fbos_[frame_render_id_])
    /\ out' = [f \in OutFields |-> IF f \in OutWritten THEN OutFixed[f]
                                                      ELSE out[f]]
    /\ phase' = "streaming"
    /\ pcV' = "idle"
    /\ incompleteFbos' = {}
    /\ quiet' = 0
    /\ UNCHANGED << backend, tabVars, idxVars, dimVars,
                    frame_acquisition_mutex_, frame_acquired_, objVars,
                    texData, ctxVars, loop_i, cfg, runVars, cntVars, pcM, ret,
                    retVars, pubVars >>

\* the engine starts drawing a picture into the bound framebuffer
engine_drawBegin ==
    /\ EngineInGL
    /\ phase = "streaming"
    /\ nFrames < MaxFrames
    /\ texData' = IF HasContext /\ DrawTarget \in Names
                    THEN [texData EXCEPT ![DrawTarget] = Torn]
                    ELSE texData
    /\ pcV' = "drawing"
    /\ UNCHANGED << backend, out, tabVars, idxVars, dimVars,
                    frame_acquisition_mutex_, frame_acquired_, objVars,
                    boundFbo, ctxVars, loopVars, phase, runVars, cntVars, pcM,
                    ret, retVars, quiet, pubVars >>

\* the picture is complete; the engine goes on to call onSwap
engine_drawEnd ==
    /\ EngineRuns
    /\ pcV = "drawing"
    /\ nFrames' = nFrames + 1
    /\ texData' = IF HasContext /\ DrawTarget \in Names
                    THEN [texData EXCEPT ![DrawTarget] = nFrames + 1]
                    ELSE texData
    /\ pcV' = "sw_lock"
    /\ UNCHANGED << backend, out, tabVars, idxVars, dimVars,
                    frame_acquisition_mutex_, frame_acquired_, objVars,
                    boundFbo, ctxVars, loopVars, phase, runVars, nAllocs,
                    nSetups, pcM, ret, retVars, quiet, pubVars >>

\* onSwap: std::lock_guard lock(frame_acquisition_mutex_)
onSwap_lock ==
    /\ EngineRuns
    /\ pcV = "sw_lock"
    /\ LockMutex("vlc")
    /\ pcV' = "sw_swap"
    /\ quiet' = 0
    /\ UNCHANGED << backend, out, tabVars, idxVars, dimVars, frame_acquired_,
                    objVars, texData, boundFbo, ctxVars, loopVars, phase,
                    runVars, cntVars, pcM, ret, retVars, pubVars >>

\* onSwap: std::swap(frame_render_id_, frame_swap_id_)
onSwap_swap ==
    /\ EngineRuns
    /\ pcV = "sw_swap"
    /\ SwapRenderSwap
    /\ pcV' = "sw_bind"
    /\ quiet' = 0
    /\ UNCHANGED << backend, out, tabVars, frame_present_id_, dimVars,
                    frame_acquisition_mutex_, frame_acquired_, objVars,
                    texData, boundFbo, ctxVars, loopVars, phase, runVars,
                    cntVars, pcM, ret, retVars, pubVars >>

\* onSwap: glBindFramebuffer(GL_FRAMEBUFFER, fbos_.at(frame_render_id_))
onSwap_bind ==
    /\ EngineRuns
    /\ pcV = "sw_bind"
    /\ BindFramebuffer(fbos_[frame_render_id_])
    /\ pcV' = "sw_flag"
    /\ quiet' = 0
    /\ UNCHANGED << backend, out, tabVars, idxVars, dimVars,
                    frame_acquisition_mutex_, frame_acquired_, objVars,
                    texData, ctxVars, loopVars, phase, runVars, cntVars, pcM,
                    ret, retVars, pubVars >>

\* onSwap: frame_acquired_ = true
onSwap_flag ==
    /\ EngineRuns
    /\ pcV = "sw_flag"
    /\ frame_acquired_' = TRUE
    /\ pcV' = "sw_unlock"
    /\ quiet' = 0
    /\ UNCHANGED << backend, out, tabVars, idxVars, dimVars,
                    frame_acquisition_mutex_, objVars, texData, boundFbo,
                    ctxVars, loopVars, phase, runVars, cntVars, pcM, ret,
                    retVars, pubVars >>

\* onSwap: the lock_guard is destroyed and onSwap returns: frame nFrames is
\* published
onSwap_return ==
    /\ EngineRuns
    /\ pcV = "sw_unlock"
    /\ UnlockMutex
    /\ pcV' = "idle"
    /\ lastPub' = nFrames
    /\ pubInSession' = TRUE
    /\ superseded' = IF pubSinceAcq >= 1 THEN superseded \cup { lastPub }
                                         ELSE superseded
    /\ pubSinceAcq' = Min2(pubSinceAcq + 1)
    /\ published' = published \cup ({ textures_[frame_swap_id_] } \cap Names)
    /\ quiet' = 0
    /\ UNCHANGED << backend, out, tabVars, idxVars, dimVars, frame_acquired_,
                    objVars, texData, boundFbo, ctxVars, loopVars, phase,
                    runVars, cntVars, pcM, ret, retVars >>

\* a GL command issued with no context current may also end the process
engine_glFault ==
    /\ EngineRuns
    /\ entered
    /\ ~HasContext
    /\ exited' = TRUE
    /\ UNCHANGED << backend, out, tabVars, idxVars, dimVars,
                    frame_acquisition_mutex_, frame_acquired_, objVars,
                    texData, boundFbo, ctxVars, pcV, loopVars, phase,
                    playing, cntVars, pcM, ret, retVars, quiet, pubVars >>

\* onCleanup: if (frame_width_ > 0 && frame_height_ > 0) { glDeleteTextures(3,
\* textures_.data()); glDeleteFramebuffers(3, fbos_.data()); }
onCleanup ==
    /\ EngineInGL
    /\ IF frame_width_ > 0 /\ frame_height_ > 0 /\ HasContext
         THEN /\ liveTex' = liveTex \ TableNames(textures_)
              /\ liveFbo' = liveFbo \ TableNames(fbos_)
              /\ texSize' = [n \in Names |->
                               IF n \in TableNames(textures_)
                                 THEN << 0, 0 >> ELSE texSize[n]]
              /\ texData' = [n \in Names |->
                               IF n \in TableNames(textures_)
                                 THEN NoFrame ELSE texData[n]]
              /\ fboTex' = [n \in Names |->
                              IF n \in TableNames(fbos_) THEN 0 ELSE fboTex[n]]
              /\ boundFbo' = IF boundFbo \in TableNames(fbos_)
                               THEN 0 ELSE boundFbo
         ELSE UNCHANGED << objVars, texData, boundFbo >>
    /\ phase' = "uninit"
    /\ pubInSession' = FALSE
    /\ quiet' = 0
    /\ UNCHANGED << backend, out, tabVars, idxVars, dimVars,
                    frame_acquisition_mutex_, frame_acquired_, ctxVars, pcV,
                    loopVars, runVars, cntVars, pcM, ret, retVars, lastPub,
                    pubSinceAcq, superseded, published >>

Next ==
    \/ main_Setup
    \/ main_Play
    \/ getNextFrame_lock
    \/ getNextFrame_check
    \/ getNextFrame_read
    \/ getNextFrame_return
    \/ main_Close
    \/ main_Teardown
    \/ onSetup
    \/ onMakeCurrent_enter
    \/ onMakeCurrent_leave
    \/ onGetProcAddress
    \/ \E d \in Dims : onUpdateOutput_enter(d)
    \/ onUpdateOutput_gentex
    \/ onUpdateOutput_genfbo
    \/ onUpdateOutput_loop
    \/ onUpdateOutput_check
    \/ onUpdateOutput_bind
    \/ engine_drawBegin
    \/ engine_drawEnd
    \/ onSwap_lock
    \/ onSwap_swap
    \/ onSwap_bind
    \/ onSwap_flag
    \/ onSwap_return
    \/ onCleanup
    \/ engine_glFault

Spec == Init /\ [][Next]_vars

\* the steps of getNextFrame and of onSwap once the mutex is theirs
getNextFrame_rest ==
    getNextFrame_check \/ getNextFrame_read \/ getNextFrame_return
onSwap_rest == onSwap_swap \/ onSwap_bind \/ onSwap_flag \/ onSwap_return

\* The runs on which progress is checked: those of Next with one allocation
\* and one frame fewer.
LiveNext == Next /\ nAllocs' < MaxAllocs /\ nFrames' < MaxFrames

\* Scheduling: a thread that can take its next step inside getNextFrame or
\* onSwap eventually takes it (the two run on different threads); std::mutex
\* gives no order among waiters, so taking the lock is only weakly fair.
LiveSpec ==
    /\ Init /\ [][LiveNext]_vars
    /\ WF_vars(getNextFrame_rest)
    /\ WF_vars(onSwap_lock)
    /\ WF_vars(onSwap_rest)

(***************************************************************************)
(* Properties.                                                             *)
(***************************************************************************)
GnfPcs == { "gnf_check", "gnf_read", "gnf_ret" }
RingOf(n) == (n + 2) \div 3

\* C1: in every reachable state the three role indices frame_render_id_,
\* frame_swap_id_ and frame_present_id_ are pairwise distinct and together
\* are a permutation of {0,1,2}, whatever callbacks and getNextFrame calls
\* have run or are running.
C1_RolesArePermutation ==
    /\ { frame_render_id_, frame_swap_id_, frame_present_id_ } = Slots
    /\ frame_render_id_ # frame_swap_id_
    /\ frame_swap_id_ # frame_present_id_
    /\ frame_render_id_ # frame_present_id_

\* both exchanges have moved the roles, and a cleanup has run since
C1_Witness ==
    /\ frame_render_id_ # 0
    /\ frame_present_id_ # 2
    /\ heldSlot >= 0
    /\ nAllocs = 2
    /\ phase = "uninit"

C2_Witness ==
    /\ heldData = 1
    /\ pcM = "gnf_read"
    /\ pcV = "drawing"

\* C3 (as claimed): once the onSwap of frame n has completed, every
\* getNextFrame that starts afterwards returns a surface holding frame n or
\* a later frame, and the frames returned by successive calls never decrease.
C3_MonotonicVisibility ==
    pcM = "gnf_ret" =>
        /\ lastPub >= 1 => DataOf(ret) >= lastPub
        /\ DataOf(ret) >= heldData

\* C4 (as claimed): the surface whose handle getNextFrame returns is the one
\* the previous call returned, or one a completed onSwap left in the swap
\* slot after the engine finished writing it.
C4_OnlyPublishedSurfaces ==
    (pcM = "gnf_ret" /\ ret \in Names) =>
        \/ heldSlot >= 0 /\ ret = held
        \/ ret \in published /\ DataOf(ret) >= 1

\* C5 (as claimed): after two or more onSwap calls with no getNextFrame
\* between them the next getNextFrame returns the surface of the last
\* publish, and no getNextFrame ever returns a frame that was replaced
\* before being acquired.
C5_NewestWins ==
    pcM = "gnf_ret" =>
        /\ pubSinceAcq = 2 => DataOf(ret) = lastPub
        /\ DataOf(ret) \notin superseded

\* C6: a getNextFrame that follows another with no callback step of the
\* engine since the first one started changes neither the role indices nor
\* frame_acquired_, and returns the handle the first one returned.
C6_RepeatRead ==
    [][ (pcM \in GnfPcs /\ pcM' # pcM /\ quiet = 2) =>
            /\ idxVars' = idxVars
            /\ frame_acquired_' = frame_acquired_
            /\ (pcM' = "idle" => held' = held) ]_vars

\* a published frame has been returned twice in a row
C6_Witness ==
    /\ pcM = "idle"
    /\ quiet = 2
    /\ heldData >= 1
    /\ held \in Names

\* C7 (as claimed): getNextFrame returns 0 on every call made before the
\* first onSwap of the session has completed.
C7_ZeroBeforeFirstSwap ==
    (pcM = "gnf_ret" /\ ~pubInSession) => ret = 0

\* the three textures of the table belong to one glGenTextures call and have
\* the same storage
RingWhole ==
    \A i, j \in Slots :
        /\ (textures_[i] \in Names) = (textures_[j] \in Names)
        /\ (textures_[i] \in Names /\ textures_[j] \in Names) =>
               /\ RingOf(textures_[i]) = RingOf(textures_[j])
               /\ texSize[textures_[i]] = texSize[textures_[j]]

\* C8 (as claimed): getNextFrame never takes the handle it returns from a
\* table in which only some of the three surfaces have been recreated or
\* sized.
C8_ReallocationAtomic ==
    [][ (pcM = "gnf_read" /\ pcM' = "gnf_ret" /\ ret' \in Names) =>
            RingWhole ]_vars

\* C9: once onUpdateOutput has returned, the three textures of the table
\* have the negotiated dimensions, and a getNextFrame that starts after the
\* k-th onUpdateOutput returned returns a texture of the k-th or a later
\* ring, never one of an earlier ring.
C9_NewRingAfterResize ==
    /\ (phase = "streaming" /\ pcV \notin UoPcs) =>
           \A i \in Slots :
               /\ textures_[i] \in Names
               /\ texSize[textures_[i]] = cfg
               /\ cfg = << frame_width_, frame_height_ >>
    /\ (pcM = "gnf_ret" /\ allocsAtStart >= 1) =>
           /\ ret \in Names
           /\ RingOf(ret) >= allocsAtStart

\* 640x480 then 1280x720: the display held a texture of the first ring and
\* is about to return one of the second
C9_Witness ==
    /\ pcM = "gnf_ret"
    /\ allocsAtStart = 2
    /\ held \in Names
    /\ RingOf(held) = 1
    /\ RingOf(ret) = 2
    /\ cfg = << 1280, 720 >>
    /\ texSize[ret] = << 1280, 720 >>

SharedHolders == { t \in DOMAIN ctx : ctx[t] = "shared" }

\* C10 (as claimed): at most one thread has the shared context current, and
\* which thread has it changes only in onMakeCurrent.
C10_OnlyOnMakeCurrent ==
    /\ [](Cardinality(SharedHolders) <= 1)
    /\ [][ ctx' # ctx => (onMakeCurrent_enter \/ onMakeCurrent_leave) ]_vars

\* C10 (amended): at most one thread has the shared context current; on the
\* engine thread it changes only in onMakeCurrent, on the main thread only in
\* main's own context switches at set-up and tear-down; and a thread gains
\* it only when no thread holds it.
C10_ContextExclusive ==
    /\ [](Cardinality(SharedHolders) <= 1)
    /\ [][ /\ ctx'["vlc"] # ctx["vlc"] =>
                  (onMakeCurrent_enter \/ onMakeCurrent_leave)
           /\ ctx'["main"] # ctx["main"] => (main_Setup \/ main_Teardown)
           /\ \A t \in DOMAIN ctx :
                  (ctx'[t] = "shared" /\ ctx[t] # "shared") =>
                      SharedHolders = {} ]_vars

\* the engine thread had the context for its frames, and main has taken it
\* back at tear-down
C10_Witness ==
    /\ pcM = "done"
    /\ ctx["main"] = "shared"
    /\ ctx["vlc"] = "none"
    /\ nFrames >= 1

\* positions of the engine thread from which its next step issues a GL command
GLPcs == UoPcs \cup { "sw_bind" }
\* the fields of the sink: handle tables, role indices, flag and dimensions
sinkVars == << tabVars, idxVars, frame_acquired_, dimVars >>

SwapPcs == { "sw_swap", "sw_bind", "sw_flag", "sw_unlock" }

\* C13 (as claimed): under weak fairness every started onSwap and every
\* started getNextFrame eventually returns, as long as the process runs.
C13_EveryCallReturns ==
    /\ (pcV \in { "sw_lock" } \cup SwapPcs) ~> (pcV = "idle" \/ exited)
    /\ (pcM \in GnfPcs) ~> (pcM = "idle" \/ exited)

\* C13 (amended): while the process runs, the holder of the mutex is inside
\* its critical section and can always take its next step, whatever the other
\* thread does (no deadlock, and getNextFrame waits for no onSwap); under weak
\* fairness every started getNextFrame and every onSwap that holds the mutex
\* returns unless the process exits; an onSwap waiting for the mutex returns
\* if the mutex is granted to it when it is free again and again (strong
\* fairness of the acquisition).
C13_NoBlocking ==
    /\ [](frame_acquisition_mutex_ = "main" <=> pcM \in GnfPcs)
    /\ [](frame_acquisition_mutex_ = "vlc" <=> pcV \in SwapPcs)
    /\ []((pcM \in GnfPcs /\ ~exited) => ENABLED getNextFrame_rest)
    /\ []((pcV \in SwapPcs /\ ~exited) => ENABLED onSwap_rest)
    /\ (pcM \in GnfPcs) ~> (pcM = "idle" \/ exited)
    /\ (pcV \in SwapPcs) ~> (pcV = "idle" \/ exited)
    /\ SF_vars(onSwap_lock) => ((pcV = "sw_lock") ~> (pcV = "idle" \/ exited))

\* onSwap has been called and waits for the mutex, which getNextFrame holds
C13_Witness ==
    /\ pcV = "sw_lock"
    /\ frame_acquisition_mutex_ = "main"
    /\ pcM = "gnf_ret"

\* C14 (as claimed): when onCleanup returns, no texture and no framebuffer
\* that an onUpdateOutput created is left alive.
C14_CleanupDestroysAll ==
    [][ (onCleanup /\ HasContext) => (liveTex' = {} /\ liveFbo' = {}) ]_vars

\* the step in which onUpdateOutput returns true
onUpdateOutput_returns == pcV = "uo_bind" /\ pcV' = "idle"

\* C15: onUpdateOutput leaves its framebuffer check either towards its return
\* of true or by ending the process; it returns only after a complete check,
\* and then true; the descriptor is written only on that way out; once the
\* process has exited no step of any thread follows.
C15_IncompleteIsFatal ==
    [][ /\ (onUpdateOutput_check /\ pcV' # "uo_bind") =>
               (exited' /\ pcV' = pcV /\ out' = out)
        /\ (pcV \in UoPcs /\ pcV' \notin UoPcs) =>
               (onUpdateOutput_returns /\ ~exited')
        /\ out' # out => onUpdateOutput_returns
        /\ ~exited ]_vars

\* the device reported the framebuffer incomplete while getNextFrame was
\* running: the process has ended inside both calls
C15_Witness ==
    /\ exited
    /\ pcV = "uo_check"
    /\ HasContext
    /\ pcM \in GnfPcs
    /\ out = OutUnset

\* C16 (as claimed): an onUpdateOutput that returns true has written the six
\* fields of the descriptor with the fixed configuration, for both backends.
C16_DescriptorPopulated ==
    [][ onUpdateOutput_returns => out' = OutFixed ]_vars

\* C17 (as claimed): the thread that holds frame_acquisition_mutex_ issues no
\* GL command.
C17_NoGLUnderMutex ==
    frame_acquisition_mutex_ = "vlc" => pcV \notin GLPcs

\* C18 (as claimed): when onUpdateOutput returns, render = 0, swap = 1 and
\* present = 2.
C18_AllocResetsRoles ==
    [][ onUpdateOutput_returns => idxVars' = << 0, 1, 2 >> ]_vars

\* C19 (as claimed): never more than three textures and three framebuffers
\* created by the sink are alive, and exactly three when onUpdateOutput
\* returns.
C19_ExactlyThreeSurfaces ==
    /\ [](Cardinality(liveTex) <= 3 /\ Cardinality(liveFbo) <= 3)
    /\ [][ onUpdateOutput_returns =>
               (Cardinality(liveTex') = 3 /\ Cardinality(liveFbo') = 3) ]_vars

\* C20 (as claimed): an onUpdateOutput called with the recorded width and
\* height changes no texture handle, no framebuffer handle and no live
\* object.
C20_SameSizeKeepsRing ==
    [][ (pcV \in { "uo_gentex", "uo_genfbo" } /\ HasContext
         /\ cfg = << frame_width_, frame_height_ >>) =>
            (tabVars' = tabVars /\ liveTex' = liveTex /\ liveFbo' = liveFbo)
      ]_vars

\* C21 (as claimed): onCleanup leaves the recorded dimensions at (0,0), and
\* an onCleanup never passes a handle that is already destroyed to
\* glDeleteTextures or glDeleteFramebuffers.
C21_CleanupIdempotent ==
    [][ onCleanup =>
          /\ frame_width_' = 0 /\ frame_height_' = 0
          /\ (frame_width_ > 0 /\ frame_height_ > 0) =>
                 /\ TableNames(textures_) \subseteq liveTex
                 /\ TableNames(fbos_) \subseteq liveFbo ]_vars

\* C22 (as claimed): outside the critical sections and outside
\* onUpdateOutput, a set frame_acquired_ means that the swap slot holds a live
\* texture which a completed onSwap left there; the flag changes only under
\* the mutex, is set only by onSwap and cleared only by getNextFrame; and it
\* is false when onUpdateOutput returns with a new ring.
C22_FlagMeansFrameReady ==
    /\ []((frame_acquisition_mutex_ = "free" /\ pcV \notin UoPcs
           /\ frame_acquired_) =>
              /\ textures_[frame_swap_id_] \in liveTex
              /\ textures_[frame_swap_id_] \in published)
    /\ [][ /\ (frame_acquired_' /\ ~frame_acquired_) =>
                 (onSwap_flag /\ frame_acquisition_mutex_ = "vlc")
           /\ (~frame_acquired_' /\ frame_acquired_) =>
                 (getNextFrame_check /\ frame_acquisition_mutex_ = "main")
           /\ onUpdateOutput_returns => ~frame_acquired_' ]_vars

\* C23: while onSwap holds the mutex, the role indices change in one step only, which
\* exchanges render and swap and leaves present; no step taken meanwhile, by
\* either thread, changes the texture handles, the framebuffer handles or the
\* dimensions; the flag is not cleared meanwhile and is true when onSwap
\* returns, whatever it was before.
C23_SwapEffect ==
    [][ /\ (pcV \in SwapPcs /\ idxVars' # idxVars) =>
               /\ onSwap_swap
               /\ frame_render_id_' = frame_swap_id_
               /\ frame_swap_id_' = frame_render_id_
               /\ frame_present_id_' = frame_present_id_
        /\ onSwap_swap => idxVars' # idxVars
        /\ (pcV \in SwapPcs) =>
               /\ tabVars' = tabVars
               /\ dimVars' = dimVars
               /\ frame_acquired_ => frame_acquired_'
        /\ onSwap_return => frame_acquired_' ]_vars

\* a second onSwap has returned while the flag of the first was still set: the
\* roles are back to (0,1,2)
C23_Witness ==
    /\ pcV = "idle"
    /\ nFrames = 2
    /\ pubSinceAcq = 2
    /\ frame_acquired_
    /\ idxVars = << 0, 1, 2 >>

\* C24: getNextFrame exchanges swap and present and clears the flag when the
\* flag is true, and changes neither the roles nor the flag when it is false;
\* it never changes render nor the bound write target, nor any handle or
\* dimension; the handle it returns is the texture of the present slot in the
\* state it returns in.
C24_AcquireEffect ==
    [][ /\ (getNextFrame_check /\ frame_acquired_) =>
               /\ frame_present_id_' = frame_swap_id_
               /\ frame_swap_id_' = frame_present_id_
               /\ ~frame_acquired_'
        /\ (getNextFrame_check /\ ~frame_acquired_) =>
               /\ idxVars' = idxVars
               /\ ~frame_acquired_'
        /\ (pcM \in GnfPcs /\ pcM' # pcM /\ ~getNextFrame_check) =>
               /\ idxVars' = idxVars
               /\ frame_acquired_' = frame_acquired_
        /\ (pcM' # pcM /\ (pcM \in GnfPcs \/ pcM' \in GnfPcs)) =>
               /\ frame_render_id_' = frame_render_id_
               /\ boundFbo' = boundFbo
               /\ tabVars' = tabVars
               /\ dimVars' = dimVars
        /\ getNextFrame_return =>
               held' = textures_'[frame_present_id_'] ]_vars

WriteTargetIsRender_sdl ==
    (backend = "sdl" /\ phase = "streaming"
       /\ pcV \in { "idle", "drawing", "sw_lock" }) =>
          /\ boundFbo = fbos_[frame_render_id_]
          /\ fboTex[boundFbo] = textures_[frame_render_id_]

\* the role indices as the other thread may observe them: onSwap's exchange
\* takes effect together with its flag
AbsIdx ==
    IF pcV \in { "sw_bind", "sw_flag" }
    THEN << frame_swap_id_, frame_render_id_, frame_present_id_ >>
    ELSE idxVars

\* onSwap as one indivisible step on the observable roles and flag
AtomicPublish ==
    /\ AbsIdx' = << AbsIdx[2], AbsIdx[1], AbsIdx[3] >>
    /\ frame_acquired_'

\* getNextFrame as one indivisible step on the observable roles and flag
AtomicAcquire ==
    /\ frame_acquired_
    /\ AbsIdx' = << AbsIdx[1], AbsIdx[3], AbsIdx[2] >>
    /\ ~frame_acquired_'

\* C26: onSwap and getNextFrame never hold the mutex together, a thread works
\* on the roles and the flag only while it holds the mutex, and every step
\* either leaves the observable roles and flag alone or changes them as one
\* whole onSwap or one whole getNextFrame would, getNextFrame then reading the
\* handle of the present slot those calls left: the calls behave as if run
\* one after the other.
C26_Serialized ==
    /\ [](~(pcM \in GnfPcs /\ pcV \in SwapPcs))
    /\ []((pcM \in GnfPcs) => frame_acquisition_mutex_ = "main")
    /\ []((pcV \in SwapPcs) => frame_acquisition_mutex_ = "vlc")
    /\ [][ /\ \/ (AbsIdx' = AbsIdx /\ frame_acquired_' = frame_acquired_)
              \/ (onSwap_flag /\ AtomicPublish)
              \/ (getNextFrame_check /\ AtomicAcquire)
           /\ getNextFrame_read => ret' = textures_[AbsIdx[3]] ]_vars

\* a publication is waiting for the mutex while getNextFrame is taking an
\* earlier frame
C26_Witness ==
    /\ pcV = "sw_lock"
    /\ pcM = "gnf_read"
    /\ nFrames = 2
    /\ pubSinceAcq = 0
    /\ frame_present_id_ = 0

\* C27: a handle getNextFrame returns is 0 or names a texture that exists when
\* the call starts reading it and still exists when the call returns; in
\* particular a call made after onCleanup returns 0 or a live texture.
C27_NeverReturnsDestroyed ==
    [][ /\ (getNextFrame_read /\ ret' \in Names) => ret' \in liveTex
        /\ (getNextFrame_return /\ held' \in Names) => held' \in liveTex' ]_vars

\* C28: if frame n is the last one an onSwap publishes and the display thread
\* keeps completing calls of getNextFrame, then from some call on every call
\* returns the surface that holds frame n.
C28_EventualDelivery ==
    \A n \in 1..MaxFrames :
        (<>[](lastPub = n) /\ []<><<getNextFrame_return>>_vars) =>
            <>[](heldData = n)

\* C29: onUpdateOutput returns true only when none of the three framebuffers
\* it created is incomplete, so a session never starts streaming on a ring
\* with an incomplete framebuffer in any slot.
C29_AllThreeValidated ==
    [][ onUpdateOutput_returns =>
            \A k \in Slots : fbos_[k] \notin incompleteFbos ]_vars

=============================================================================
